---- MODULE Spec2Model ----
(***************************************************************************)
(* Mesh transport layer of omega-cyber (mesh-network, Go):                 *)
(*   internal/p2p   node.go   Node, Bootstrap, WrapGRPC, singleUseListener *)
(*   internal/grpc  server.go Server, Serve, GracefulStop, StreamTelemetry *)
(*   cmd            main.go   startup and shutdown sequence                *)
(*                                                                         *)
(* The specifications of this module, one per subsystem:                   *)
(*   AcceptSpec     callers of singleUseListener.Accept on one instance    *)
(*   AcceptFairSpec the same, every calling goroutine scheduled again      *)
(*   BootstrapSpec  Node.Bootstrap: seed selection, dial tasks, barrier    *)
(*   BootstrapFairSpec  the same, goroutines and DHT scheduled again       *)
(*   RefreshSpec    Bootstrap and the ticker of its stats goroutine        *)
(*   RefreshFairSpec    the same, the stats goroutine scheduled again      *)
(*   DialSpec       Node.DialGRPC and the dialer of the client it returns  *)
(*   ConnSpec       lp2pStreamConn Read / Write / Close over open streams  *)
(*   ServeSpec      main: start-up, stream handler, serve tasks, shutdown  *)
(*   NodeSpec       NewNode: key pair, listen addresses, host creation     *)
(***************************************************************************)
EXTENDS Naturals, Integers, Sequences, FiniteSets, TLC

\* ------------------------------------------------------------------ bounds
NumStreams == 2          \* streams the transport host can deliver
NumCallers == 2          \* goroutines calling Accept on one listener
MaxAcceptCalls == 3      \* Accept calls made on one listener in a run
NumPeers == 2            \* remote peers known to the environment
MaxSeeds == 2            \* longest list of configured join addresses
MaxBootstrapCalls == 2   \* Bootstrap calls made on one node in a run
MaxDials == 3            \* DialGRPC calls made on one node in a run
MaxWrite == 2            \* bytes written on one stream in a run
MaxRepeatCalls == 2      \* repeated GracefulStop / Close calls in a run
MaxRedials == 2          \* dialer invocations by the RPC clients in a run
NumNodes == 2            \* nodes created on one machine

Streams == 1..NumStreams
Nodes == 1..NumNodes
Callers == 1..NumCallers
Peers == 1..NumPeers
Nil == 0                 \* Go nil (no connection, no stream)
BadAddr == 0             \* a join address that multiaddr / AddrInfo parsing rejects

VARIABLES
    \* --- singleUseListener under test (AcceptSpec)
    lis,        \* the instance: [stream, done, m]  (once.done, once.m holder)
    apc,        \* position of each caller inside Accept
    conn,       \* each caller's local variable conn (stream wrapped, or Nil)
    calls,      \* history: one record per Accept call, in invocation order
    cur,        \* index in calls of each caller's current call
    overlap,    \* history: some call was invoked while another was pending
    \* --- Node.Bootstrap (BootstrapSpec)
    joinAddresses,  \* n.cfg.JoinAddresses: sequence of peers and BadAddr
    defaultPeers,   \* dht.DefaultBootstrapPeers as read by the call
    ctxDone,        \* the node's context has been cancelled
    bpc,            \* position of the Bootstrap call
    bootstrapPeers, \* local bootstrapPeers: the seeds being dialed
    dial,           \* one entry per spawned dial goroutine: its position
    tmp,            \* per goroutine: the value read by connectedPeers++
    connectedPeers, \* local connectedPeers (shared with the goroutines)
    wg,             \* sync.WaitGroup counter
    connected,      \* peers the Host holds a connection to
    routingTable,   \* peer IDs in the DHT routing table
    loops,          \* running routing-table stats goroutines
    bcalls,         \* number of Bootstrap calls made
    bret,           \* history: what the last Bootstrap call returned
    okDials,        \* history: seed positions whose Connect succeeded
    rtAtCall,       \* history: routingTable when the last call was entered
    quiet,          \* history: the DHT recorded no peer since that moment
    \* --- main, Server, WrapGRPC (ServeSpec)
    mpc,            \* position of main
    health,         \* healthServer status of the "" service
    handlerSet,     \* a stream handler is registered for MeshProtocolID
    grpcStopped,    \* grpcServer has been told to stop (GracefulStop entered)
    hostClosed,     \* Host.Close has run
    crashed,        \* the process died of an unrecovered panic
    streamState,    \* per stream: "none", "open", "closed" or "reset"
    remoteClosed,   \* per stream: the remote peer closed its side
    remotePeer,     \* per stream: s.Conn().RemotePeer()
    handler,        \* per stream: position of the stream handler call
    hctx,           \* per stream: the handler's local ctx ("peerid" value)
    bridge,         \* per stream: the singleUseListener built for it
    task,           \* per stream: position of the goroutine running Serve
    session,        \* per stream: state of the RPC session on its connection
    sctx,           \* per stream: "peerid" value in the context RPC handlers see
    inFlight,       \* history: sessions running when GracefulStop was entered
    \* --- the stats goroutine started by Bootstrap (RefreshSpec)
    tick,           \* a tick is waiting on the ticker channel of a running loop
    lateLog,        \* history: a table size was logged after the cancellation
    \* --- Node.DialGRPC (DialSpec)
    peerstore,      \* peers whose address the Host can resolve
    gpc,            \* position of the DialGRPC call
    gpeer,          \* its argument peerID
    gstream,        \* its local stream (Nil when NewStream failed)
    gcalls,         \* history: one record per DialGRPC call
    gtrans,         \* per DialGRPC call: the transport of the client it returned
    handed,         \* history: one record per net.Conn a dialer returned
    \* --- lp2pStreamConn and singleUseListener over open streams (ConnSpec)
    closedStreams,  \* streams on which Stream.Close has run
    sent,           \* history, per stream: the bytes written through its conn
    wire,           \* per stream: bytes written and not yet read
    rcvd,           \* history, per stream: the bytes its reader has read
    \* --- main's start-up and repeated shutdown calls (ServeSpec)
    reStops,        \* GracefulStop calls made after the first one returned
    reCloses,       \* Close calls made after the first one returned
    shutErr,        \* history: such a call returned an error or panicked
    bootRet,        \* main's err of p2pNode.Bootstrap(ctx): "none" before it returns
    lateStreams,    \* history: streams delivered after GracefulStop returned
    \* --- NewNode (NodeSpec)
    npc,            \* per node: position of its NewNode call
    nport,          \* per node: cfg.P2PPort, "any" (0) or "fixed"
    nbound,         \* per node: the listen addresses its host holds bound
    nret            \* per node: what NewNode returned

acceptVars == <<lis, apc, conn, calls, cur, overlap>>

bootVars == <<joinAddresses, defaultPeers, ctxDone, bpc, bootstrapPeers,
              dial, tmp, connectedPeers, wg, connected, routingTable, loops,
              bcalls, bret, okDials, rtAtCall, quiet>>

serveVars == <<mpc, health, handlerSet, grpcStopped, hostClosed, crashed,
               streamState,
               remoteClosed, remotePeer, handler, hctx, bridge, task, session,
               sctx, inFlight>>

\* serveVars without main's position
serveRest == <<health, handlerSet, grpcStopped, hostClosed, crashed, streamState,
               remoteClosed, remotePeer, handler, hctx, bridge, task, session,
               sctx, inFlight>>

refreshVars == <<tick, lateLog>>

dialVars == <<peerstore, gpc, gpeer, gstream, gcalls, gtrans, handed>>

connVars == <<closedStreams, sent, wire, rcvd>>

shutVars == <<reStops, reCloses, shutErr, bootRet, lateStreams>>

nodeVars == <<npc, nport, nbound, nret>>

restVars == <<refreshVars, dialVars, connVars, shutVars, nodeVars>>

vars == <<acceptVars, bootVars, serveVars, restVars>>

\* ------------------------------------------------- singleUseListener.Accept
\* newSingleUseListener(stream): the zero sync.Once and the given stream.
newSingleUseListener(stream) == [stream |-> stream, done |-> FALSE, m |-> Nil]

\* What an Accept call hands back: (conn, nil) or (nil, io.EOF).
\* A connection is an lp2pStreamConn, identified by the stream it embeds.
lp2pStreamConn(stream) == [conn |-> stream, err |-> "nil"]
EOF == [conn |-> Nil, err |-> "EOF"]
Pending == [conn |-> Nil, err |-> "pending"]

AcceptInit ==
    /\ \E s \in Streams : lis = newSingleUseListener(s)
    /\ apc = [c \in Callers |-> "idle"]
    /\ conn = [c \in Callers |-> Nil]
    /\ calls = <<>>
    /\ cur = [c \in Callers |-> 0]
    /\ overlap = FALSE

\* No listener is being exercised: the instance stays as constructed.
AcceptQuiet ==
    /\ lis = newSingleUseListener(1)
    /\ apc = [c \in Callers |-> "idle"]
    /\ conn = [c \in Callers |-> Nil]
    /\ calls = <<>>
    /\ cur = [c \in Callers |-> 0]
    /\ overlap = FALSE

\* Accept is entered: var conn net.Conn (nil); then l.once.Do(...).
AcceptCall(c) ==
    /\ apc[c] = "idle"
    /\ Len(calls) < MaxAcceptCalls
    /\ apc' = [apc EXCEPT ![c] = "once"]
    /\ conn' = [conn EXCEPT ![c] = Nil]
    /\ calls' = Append(calls, Pending)
    /\ cur' = [cur EXCEPT ![c] = Len(calls) + 1]
    /\ overlap' = (overlap \/ \E d \in Callers : apc[d] # "idle")
    /\ UNCHANGED <<bootVars, serveVars, restVars, lis>>

\* sync.Once.Do fast path: done already set -> f is skipped.
OnceDo(c) ==
    /\ apc[c] = "once"
    /\ apc' = [apc EXCEPT ![c] = IF lis.done THEN "ret" ELSE "lock"]
    /\ UNCHANGED <<bootVars, serveVars, restVars, lis, conn, calls, cur, overlap>>

\* sync.Once.doSlow: o.m.Lock()
OnceLock(c) ==
    /\ apc[c] = "lock"
    /\ lis.m = Nil
    /\ lis' = [lis EXCEPT !.m = c]
    /\ apc' = [apc EXCEPT ![c] = "f"]
    /\ UNCHANGED <<bootVars, serveVars, restVars, conn, calls, cur, overlap>>

\* A Once that does not look at done again once it holds the lock.
OnceFNoRecheck(c) ==
    /\ apc[c] = "f"
    /\ conn' = [conn EXCEPT ![c] = lis.stream]
    /\ apc' = [apc EXCEPT ![c] = "store"]
    /\ UNCHANGED <<bootVars, serveVars, restVars, lis, calls, cur, overlap>>

\* The closure passed to Do: conn = &lp2pStreamConn{Stream: l.stream};
\* run only if done is still unset under the lock.
OnceF(c) ==
    /\ apc[c] = "f"
    /\ IF lis.done
          THEN /\ apc' = [apc EXCEPT ![c] = "unlock"]
               /\ UNCHANGED conn
          ELSE /\ conn' = [conn EXCEPT ![c] = lis.stream]
               /\ apc' = [apc EXCEPT ![c] = "store"]
    /\ UNCHANGED <<bootVars, serveVars, restVars, lis, calls, cur, overlap>>

\* A Once that forgets it has fired: done is never stored.
OnceStoreForgets(c) ==
    /\ apc[c] = "store"
    /\ apc' = [apc EXCEPT ![c] = "unlock"]
    /\ UNCHANGED <<bootVars, serveVars, restVars, lis, conn, calls, cur, overlap>>

\* sync.Once.doSlow: defer o.done.Store(1), after f returned.
OnceStore(c) ==
    /\ apc[c] = "store"
    /\ lis' = [lis EXCEPT !.done = TRUE]
    /\ apc' = [apc EXCEPT ![c] = "unlock"]
    /\ UNCHANGED <<bootVars, serveVars, restVars, conn, calls, cur, overlap>>

\* sync.Once.doSlow: defer o.m.Unlock()
OnceUnlock(c) ==
    /\ apc[c] = "unlock"
    /\ lis' = [lis EXCEPT !.m = Nil]
    /\ apc' = [apc EXCEPT ![c] = "ret"]
    /\ UNCHANGED <<bootVars, serveVars, restVars, conn, calls, cur, overlap>>

\* if conn != nil { return conn, nil }; return nil, io.EOF
AcceptReturn(c) ==
    /\ apc[c] = "ret"
    /\ calls' = [calls EXCEPT ![cur[c]] =
                    IF conn[c] # Nil THEN lp2pStreamConn(conn[c]) ELSE EOF]
    /\ apc' = [apc EXCEPT ![c] = "idle"]
    /\ UNCHANGED <<bootVars, serveVars, restVars, lis, conn, cur, overlap>>

AcceptStep(c) ==
    \/ AcceptCall(c)
    \/ OnceDo(c)
    \/ OnceLock(c)
    \/ OnceF(c)
    \/ OnceStore(c)
    \/ OnceUnlock(c)
    \/ AcceptReturn(c)

AcceptNext == \E c \in Callers : AcceptStep(c)

\* ------------------------------------------------------------ Node.Bootstrap
\* Sequences of length at most n over S.
SeqsUpTo(S, n) == UNION {[1..k -> S] : k \in 0..n}

\* Values of dht.DefaultBootstrapPeers: the library's list, or emptied.
DefaultSeedLists == {<<>>, <<1>>}

\* A parser that drops the addresses it cannot parse and keeps the others.
parsePeersSkipsBad(addrs) ==
    [peers |-> SelectSeq(addrs, LAMBDA a : a # BadAddr), err |-> FALSE]

\* parsePeers: the loop returns (nil, err) at the first address that does not
\* parse, and the peers in order when all parse.
RECURSIVE parsePeers(_)
parsePeers(addrs) ==
    IF addrs = <<>> THEN [peers |-> <<>>, err |-> FALSE]
    ELSE IF Head(addrs) = BadAddr THEN [peers |-> <<>>, err |-> TRUE]
    ELSE LET rest == parsePeers(Tail(addrs))
         IN  IF rest.err THEN rest
             ELSE [peers |-> <<Head(addrs)>> \o rest.peers, err |-> FALSE]

\* A seed selection that dials nothing when no join address is configured.
SelectSeedsNoDefault(join, defaults) ==
    IF Len(join) > 0 /\ ~parsePeers(join).err THEN parsePeers(join).peers
    ELSE IF Len(join) > 0 THEN defaults ELSE <<>>

\* bootstrapPeers := dht.DefaultBootstrapPeers; replaced by the parsed join
\* addresses when some are configured and all of them parse.
SelectSeeds(join, defaults) ==
    IF Len(join) > 0 /\ ~parsePeers(join).err THEN parsePeers(join).peers
    ELSE defaults

\* Values of cfg.JoinAddresses.  Peers differ in name only, so of the lists
\* that are equal up to a renaming of the peers one is taken: the one that
\* names the peers 1, 2, ... in the order of their first occurrence.
JoinLists ==
    {a \in SeqsUpTo(Peers \cup {BadAddr}, MaxSeeds) :
        \A i \in 1..Len(a) : \A p \in 1..(a[i] - 1) : \E j \in 1..(i - 1) : a[j] = p}

\* After NewNode: nothing dialed, empty routing table.  The configuration and
\* the library's default seed list are inputs.
BootInit ==
    /\ joinAddresses \in JoinLists
    /\ defaultPeers \in DefaultSeedLists
    /\ ctxDone = FALSE
    /\ bpc = "idle"
    /\ bootstrapPeers = <<>>
    /\ dial = <<>>
    /\ tmp = <<>>
    /\ connectedPeers = 0
    /\ wg = 0
    /\ connected = {}
    /\ routingTable = {}
    /\ loops = 0
    /\ bcalls = 0
    /\ bret = "none"
    /\ okDials = {}
    /\ rtAtCall = {}
    /\ quiet = TRUE

\* Bootstrap is not being exercised.
BootQuiet ==
    /\ joinAddresses = <<>>
    /\ defaultPeers = <<>>
    /\ ctxDone = FALSE
    /\ bpc = "idle"
    /\ bootstrapPeers = <<>>
    /\ dial = <<>>
    /\ tmp = <<>>
    /\ connectedPeers = 0
    /\ wg = 0
    /\ connected = {}
    /\ routingTable = {}
    /\ loops = 0
    /\ bcalls = 0
    /\ bret = "none"
    /\ okDials = {}
    /\ rtAtCall = {}
    /\ quiet = TRUE

\* Bootstrap is entered: var wg, var connectedPeers int, seed selection.
BootstrapCall ==
    /\ bpc = "idle"
    /\ bcalls < MaxBootstrapCalls
    /\ bcalls' = bcalls + 1
    /\ bootstrapPeers' = SelectSeeds(joinAddresses, defaultPeers)
    /\ connectedPeers' = 0
    /\ wg' = 0
    /\ dial' = <<>>
    /\ tmp' = <<>>
    /\ okDials' = {}
    /\ bret' = "none"
    /\ rtAtCall' = routingTable
    /\ quiet' = TRUE
    /\ bpc' = "spawn"
    /\ UNCHANGED <<acceptVars, serveVars, restVars, joinAddresses, defaultPeers, ctxDone, connected,
                   routingTable, loops>>

\* One iteration of the range loop: wg.Add(1); go func(p) {...}(p)
BootstrapSpawn ==
    /\ bpc = "spawn"
    /\ Len(dial) < Len(bootstrapPeers)
    /\ wg' = wg + 1
    /\ dial' = Append(dial, "connect")
    /\ tmp' = Append(tmp, 0)
    /\ UNCHANGED <<acceptVars, serveVars, restVars, joinAddresses, defaultPeers, ctxDone, bpc,
                   bootstrapPeers, connectedPeers, connected, routingTable,
                   loops, bcalls, bret, okDials, rtAtCall, quiet>>

\* Host.Connect(ctx, p) can succeed only while ctx is live; with a connection
\* to p already open it returns nil at once, otherwise the peer decides.
ConnectOutcomes(p) ==
    IF ctxDone THEN {FALSE}
    ELSE IF p \in connected THEN {TRUE}
    ELSE BOOLEAN

\* Dial goroutine i: n.Host.Connect(ctx, p).  On failure only the deferred
\* wg.Done() runs.  A peer that does not answer leaves the goroutine inside
\* Connect.
DialConnect(i) ==
    /\ i \in 1..Len(dial)
    /\ dial[i] = "connect"
    /\ \/ \E ok \in ConnectOutcomes(bootstrapPeers[i]) :
             IF ok
                THEN /\ connected' = connected \cup {bootstrapPeers[i]}
                     /\ okDials' = okDials \cup {i}
                     /\ dial' = [dial EXCEPT ![i] = "read"]
                     /\ wg' = wg
                ELSE /\ dial' = [dial EXCEPT ![i] = "done"]
                     /\ wg' = wg - 1
                     /\ UNCHANGED <<connected, okDials>>
       \/ /\ ~ctxDone
          /\ bootstrapPeers[i] \notin connected
          /\ dial' = [dial EXCEPT ![i] = "waiting"]
          /\ UNCHANGED <<connected, okDials, wg>>
    /\ UNCHANGED <<acceptVars, serveVars, restVars, joinAddresses, defaultPeers, ctxDone, bpc,
                   bootstrapPeers, tmp, connectedPeers, routingTable, loops,
                   bcalls, bret, rtAtCall, quiet>>

\* A Connect that waits on a silent peer for as long as the peer is silent.
DialNoTimeout(i) ==
    /\ i \in 1..Len(dial)
    /\ dial[i] = "waiting"
    /\ ctxDone
    /\ dial' = [dial EXCEPT ![i] = "timedout"]
    /\ wg' = wg - 1
    /\ UNCHANGED <<acceptVars, serveVars, restVars, joinAddresses, defaultPeers, ctxDone, bpc,
                   bootstrapPeers, tmp, connectedPeers, connected, routingTable,
                   loops, bcalls, bret, okDials, rtAtCall, quiet>>

\* Connect on a silent peer returns an error when the transport gives the
\* dial up (its handshake and dial timeouts) or when ctx is cancelled; then
\* the deferred wg.Done() runs.
DialTimeout(i) ==
    /\ i \in 1..Len(dial)
    /\ dial[i] = "waiting"
    /\ dial' = [dial EXCEPT ![i] = "timedout"]
    /\ wg' = wg - 1
    /\ UNCHANGED <<acceptVars, serveVars, restVars, joinAddresses, defaultPeers, ctxDone, bpc,
                   bootstrapPeers, tmp, connectedPeers, connected, routingTable,
                   loops, bcalls, bret, okDials, rtAtCall, quiet>>

\* A counter update that writes back the value it read.
DialWriteNoIncrement(i) ==
    /\ i \in 1..Len(dial)
    /\ dial[i] = "write"
    /\ connectedPeers' = tmp[i]
    /\ tmp' = [tmp EXCEPT ![i] = 0]
    /\ dial' = [dial EXCEPT ![i] = "done"]
    /\ wg' = wg - 1
    /\ UNCHANGED <<acceptVars, serveVars, restVars, joinAddresses, defaultPeers, ctxDone, bpc,
                   bootstrapPeers, connected, routingTable, loops, bcalls,
                   bret, okDials, rtAtCall, quiet>>

\* connectedPeers++ is an unsynchronized read ...
DialRead(i) ==
    /\ i \in 1..Len(dial)
    /\ dial[i] = "read"
    /\ tmp' = [tmp EXCEPT ![i] = connectedPeers]
    /\ dial' = [dial EXCEPT ![i] = "write"]
    /\ UNCHANGED <<acceptVars, serveVars, restVars, joinAddresses, defaultPeers, ctxDone, bpc,
                   bootstrapPeers, connectedPeers, wg, connected, routingTable,
                   loops, bcalls, bret, okDials, rtAtCall, quiet>>

\* ... followed by a write; then the deferred wg.Done().
DialWrite(i) ==
    /\ i \in 1..Len(dial)
    /\ dial[i] = "write"
    /\ connectedPeers' = tmp[i] + 1
    /\ tmp' = [tmp EXCEPT ![i] = 0]
    /\ dial' = [dial EXCEPT ![i] = "done"]
    /\ wg' = wg - 1
    /\ UNCHANGED <<acceptVars, serveVars, restVars, joinAddresses, defaultPeers, ctxDone, bpc,
                   bootstrapPeers, connected, routingTable, loops, bcalls,
                   bret, okDials, rtAtCall, quiet>>

\* A Bootstrap that goes on once the loop has spawned, without wg.Wait().
BootstrapWaitNoBarrier ==
    /\ bpc = "spawn"
    /\ Len(dial) = Len(bootstrapPeers)
    /\ IF connectedPeers = 0 /\ Len(bootstrapPeers) > 0
          THEN bpc' = "idle" /\ bret' = "ErrNoPeers"
          ELSE bpc' = "dht" /\ bret' = bret
    /\ UNCHANGED <<acceptVars, serveVars, restVars, joinAddresses, defaultPeers, ctxDone,
                   bootstrapPeers, dial, tmp, connectedPeers, wg, connected,
                   routingTable, loops, bcalls, okDials, rtAtCall, quiet>>

\* A reachability check that wants every seed connected.
BootstrapWaitAllRequired ==
    /\ bpc = "spawn"
    /\ Len(dial) = Len(bootstrapPeers)
    /\ wg = 0
    /\ IF connectedPeers < Len(bootstrapPeers)
          THEN bpc' = "idle" /\ bret' = "ErrNoPeers"
          ELSE bpc' = "dht" /\ bret' = bret
    /\ UNCHANGED <<acceptVars, serveVars, restVars, joinAddresses, defaultPeers, ctxDone,
                   bootstrapPeers, dial, tmp, connectedPeers, wg, connected,
                   routingTable, loops, bcalls, okDials, rtAtCall, quiet>>

\* A barrier that is followed by no reachability check at all.
BootstrapWaitNoCheck ==
    /\ bpc = "spawn"
    /\ Len(dial) = Len(bootstrapPeers)
    /\ wg = 0
    /\ bpc' = "dht"
    /\ UNCHANGED <<acceptVars, serveVars, restVars, joinAddresses, defaultPeers, ctxDone,
                   bootstrapPeers, dial, tmp, connectedPeers, wg, connected,
                   routingTable, loops, bcalls, bret, okDials, rtAtCall, quiet>>

\* wg.Wait() after the loop, then
\* if connectedPeers == 0 && len(bootstrapPeers) > 0 { return error }
BootstrapWait ==
    /\ bpc = "spawn"
    /\ Len(dial) = Len(bootstrapPeers)
    /\ wg = 0
    /\ IF connectedPeers = 0 /\ Len(bootstrapPeers) > 0
          THEN bpc' = "idle" /\ bret' = "ErrNoPeers"
          ELSE bpc' = "dht" /\ bret' = bret
    /\ UNCHANGED <<acceptVars, serveVars, restVars, joinAddresses, defaultPeers, ctxDone,
                   bootstrapPeers, dial, tmp, connectedPeers, wg, connected,
                   routingTable, loops, bcalls, okDials, rtAtCall, quiet>>

\* n.dht.Bootstrap(ctx): an error is returned wrapped; otherwise the stats
\* goroutine is started and Bootstrap returns nil.
BootstrapDHT ==
    /\ bpc = "dht"
    /\ \E dhtErr \in BOOLEAN :
          IF dhtErr
             THEN bret' = "ErrDHT" /\ loops' = loops
             ELSE bret' = "nil" /\ loops' = loops + 1
    /\ bpc' = "idle"
    /\ UNCHANGED <<acceptVars, serveVars, restVars, joinAddresses, defaultPeers, ctxDone,
                   bootstrapPeers, dial, tmp, connectedPeers, wg, connected,
                   routingTable, bcalls, okDials, rtAtCall, quiet>>

\* A stats goroutine that returns whether or not ctx is cancelled.
LoopExitEarly ==
    /\ loops > 0
    /\ loops' = loops - 1
    /\ UNCHANGED <<acceptVars, serveVars, restVars, joinAddresses, defaultPeers, ctxDone, bpc,
                   bootstrapPeers, dial, tmp, connectedPeers, wg, connected,
                   routingTable, bcalls, bret, okDials, rtAtCall, quiet>>

\* The stats goroutine: case <-ctx.Done(): return
LoopExit ==
    /\ ctxDone
    /\ loops > 0
    /\ loops' = loops - 1
    /\ UNCHANGED <<acceptVars, serveVars, restVars, joinAddresses, defaultPeers, ctxDone, bpc,
                   bootstrapPeers, dial, tmp, connectedPeers, wg, connected,
                   routingTable, bcalls, bret, okDials, rtAtCall, quiet>>

\* The caller cancels the context the node was created with.
CtxCancel ==
    /\ ~ctxDone
    /\ ctxDone' = TRUE
    /\ UNCHANGED <<acceptVars, serveVars, restVars, joinAddresses, defaultPeers, bpc, bootstrapPeers,
                   dial, tmp, connectedPeers, wg, connected, routingTable, loops,
                   bcalls, bret, okDials, rtAtCall, quiet>>

\* The DHT (created in NewNode with the node's context) records a connected
\* peer in its routing table some time after the connection was made.
DhtAddPeer(p) ==
    /\ ~ctxDone
    /\ p \in connected \ routingTable
    /\ routingTable' = routingTable \cup {p}
    /\ quiet' = FALSE
    /\ UNCHANGED <<acceptVars, serveVars, restVars, joinAddresses, defaultPeers, ctxDone, bpc,
                   bootstrapPeers, dial, tmp, connectedPeers, wg, connected,
                   loops, bcalls, bret, okDials, rtAtCall>>

\* A remote peer connects to this node (as the join node does with the
\* bootstrap node).
InboundPeer(p) ==
    /\ p \notin connected
    /\ connected' = connected \cup {p}
    /\ UNCHANGED <<acceptVars, serveVars, restVars, joinAddresses, defaultPeers, ctxDone, bpc,
                   bootstrapPeers, dial, tmp, connectedPeers, wg, routingTable,
                   loops, bcalls, bret, okDials, rtAtCall, quiet>>

\* The stats goroutine is not being observed.
RefreshInit ==
    /\ tick = FALSE
    /\ lateLog = FALSE

RefreshQuiet == RefreshInit

\* time.NewTicker(1 * time.Minute): a tick is delivered on ticker.C, whose
\* buffer holds one.
TickFire ==
    /\ loops > 0
    /\ ~tick
    /\ tick' = TRUE
    /\ UNCHANGED <<acceptVars, nodeVars, bootVars, serveVars, dialVars, connVars, shutVars,
                   lateLog>>

\* select, case <-ticker.C: the table size is logged.  With ctx.Done() ready
\* as well, select takes either case.
LoopLog ==
    /\ loops > 0
    /\ tick
    /\ tick' = FALSE
    /\ lateLog' = (lateLog \/ ctxDone)
    /\ UNCHANGED <<acceptVars, nodeVars, bootVars, serveVars, dialVars, connVars, shutVars>>

DialStep(i) ==
    \/ DialConnect(i)
    \/ DialTimeout(i)
    \/ DialRead(i)
    \/ DialWrite(i)

BootNext ==
    \/ BootstrapCall
    \/ BootstrapSpawn
    \/ \E i \in 1..MaxSeeds : DialStep(i)
    \/ BootstrapWait
    \/ BootstrapDHT
    \/ LoopExit
    \/ CtxCancel
    \/ \E p \in Peers : DhtAddPeer(p) \/ InboundPeer(p)

RefreshNext ==
    \/ BootNext
    \/ TickFire
    \/ LoopLog

\* ------------------------------------------- main, Server.Serve, WrapGRPC
Methods == {"RegisterAgent", "GetPeerInfo", "StreamTelemetry"}

\* Accept as its single caller, the Serve loop of one listener, sees it: the
\* result and the listener afterwards.
AcceptOnce(l) ==
    IF ~l.done
       THEN [res |-> lp2pStreamConn(l.stream), lis |-> [l EXCEPT !.done = TRUE]]
       ELSE [res |-> EOF, lis |-> l]

\* No listener has been built for a stream yet.
NoBridge == newSingleUseListener(Nil)

\* main has loaded its configuration and is about to call p2p.NewNode.
ServeInit ==
    /\ mpc = "start"
    /\ health = "none"
    /\ handlerSet = FALSE
    /\ grpcStopped = FALSE
    /\ hostClosed = FALSE
    /\ crashed = FALSE
    /\ streamState = [s \in Streams |-> "none"]
    /\ remoteClosed = [s \in Streams |-> FALSE]
    /\ remotePeer = [s \in Streams |-> Nil]
    /\ handler = [s \in Streams |-> "none"]
    /\ hctx = [s \in Streams |-> Nil]
    /\ bridge = [s \in Streams |-> NoBridge]
    /\ task = [s \in Streams |-> "none"]
    /\ session = [s \in Streams |-> "none"]
    /\ sctx = [s \in Streams |-> Nil]
    /\ inFlight = {}

\* The server side is not being exercised.
ServeQuiet == ServeInit

\* p2p.NewNode(ctx, &cfg.Node) returns; on an error logrus Fatal ends the
\* process, otherwise main calls p2pNode.Bootstrap(ctx).
MainNewNode ==
    /\ ~crashed
    /\ mpc = "start"
    /\ \E ok \in BOOLEAN : mpc' = IF ok THEN "bootstrapping" ELSE "fatal"
    /\ UNCHANGED <<acceptVars, bootVars, restVars, health, handlerSet, grpcStopped,
                   hostClosed, crashed, streamState, remoteClosed, remotePeer,
                   handler, hctx, bridge, task, session, sctx, inFlight>>

\* p2pNode.Bootstrap(ctx) returns; on an error logrus Fatal ends the process.
MainBootstrapReturn ==
    /\ ~crashed
    /\ mpc = "bootstrapping"
    /\ \E ok \in BOOLEAN :
          /\ bootRet' = IF ok THEN "nil" ELSE "err"
          /\ mpc' = IF ok THEN "bootstrapped" ELSE "fatal"
    /\ UNCHANGED <<acceptVars, nodeVars, bootVars, refreshVars, dialVars, connVars, serveRest,
                   reStops, reCloses, shutErr, lateStreams>>

\* grpc.NewServer(p2pNode): servers built, health status "" set to SERVING.
MainNewServer ==
    /\ ~crashed
    /\ mpc = "bootstrapped"
    /\ mpc' = "created"
    /\ health' = "SERVING"
    /\ UNCHANGED <<acceptVars, bootVars, restVars, handlerSet, grpcStopped, hostClosed,
                   crashed, streamState, remoteClosed, remotePeer, handler, hctx,
                   bridge, task, session, sctx, inFlight>>

\* A main that registers the handler without waiting for Bootstrap to return.
MainServeEarly ==
    /\ ~crashed
    /\ mpc \in {"bootstrapping", "created"}
    /\ mpc' = "running"
    /\ handlerSet' = TRUE
    /\ UNCHANGED <<acceptVars, bootVars, restVars, health, grpcStopped, hostClosed,
                   crashed, streamState, remoteClosed, remotePeer, handler, hctx,
                   bridge, task, session, sctx, inFlight>>

\* Server.Serve: Host.SetStreamHandler(MeshProtocolID, WrapGRPC(grpcServer));
\* main then blocks on the signal channel.
MainServe ==
    /\ ~crashed
    /\ mpc = "created"
    /\ mpc' = "running"
    /\ handlerSet' = TRUE
    /\ UNCHANGED <<acceptVars, bootVars, restVars, health, grpcStopped, hostClosed,
                   crashed, streamState, remoteClosed, remotePeer, handler, hctx,
                   bridge, task, session, sctx, inFlight>>

\* The Host delivers an inbound stream of peer p on the registered protocol.
StreamArrive(s, p) ==
    /\ ~crashed
    /\ handlerSet
    /\ ~hostClosed
    /\ streamState[s] = "none"
    /\ streamState' = [streamState EXCEPT ![s] = "open"]
    /\ remotePeer' = [remotePeer EXCEPT ![s] = p]
    /\ lateStreams' = IF mpc = "stopped" THEN lateStreams \cup {s} ELSE lateStreams
    /\ UNCHANGED <<acceptVars, nodeVars, bootVars, refreshVars, dialVars, connVars, mpc,
                   health, handlerSet, grpcStopped,
                   hostClosed, crashed, remoteClosed, handler, hctx, bridge,
                   task, session, sctx, inFlight, reStops, reCloses, shutErr,
                   bootRet>>

\* A peer opens a stream on the protocol while the Host is up and no handler
\* is registered for it: protocol negotiation fails and the Host resets the
\* stream without calling anything of the server.
StreamRefused(s) ==
    /\ ~crashed
    /\ mpc \in {"bootstrapping", "bootstrapped", "created"}
    /\ ~handlerSet
    /\ streamState[s] = "none"
    /\ streamState' = [streamState EXCEPT ![s] = "reset"]
    /\ UNCHANGED <<acceptVars, bootVars, restVars, mpc, health, handlerSet, grpcStopped,
                   hostClosed, crashed, remoteClosed, remotePeer, handler, hctx,
                   bridge, task, session, sctx, inFlight>>

\* A handler that runs Serve itself and returns only when Serve has.
HandleStreamInline(s) ==
    /\ ~crashed
    /\ streamState[s] \in {"open", "closed"}
    /\ \/ /\ handler[s] = "none"
          /\ hctx' = [hctx EXCEPT ![s] = remotePeer[s]]
          /\ bridge' = [bridge EXCEPT ![s] = newSingleUseListener(s)]
          /\ task' = [task EXCEPT ![s] = "start"]
          /\ handler' = [handler EXCEPT ![s] = "waiting"]
       \/ /\ handler[s] = "waiting"
          /\ task[s] = "done"
          /\ handler' = [handler EXCEPT ![s] = "returned"]
          /\ UNCHANGED <<hctx, bridge, task>>
    /\ UNCHANGED <<acceptVars, bootVars, restVars, mpc, health, handlerSet, grpcStopped,
                   hostClosed, crashed, streamState, remoteClosed, remotePeer,
                   session, sctx, inFlight>>

\* The handler returned by WrapGRPC: ctx := context.WithValue(s.Context(),
\* "peerid", remote peer); go func() { grpcServer.Serve(newSingleUseListener(s)) }()
\* and return.  ctx is handed to nobody.
HandleStream(s) ==
    /\ ~crashed
    /\ streamState[s] \in {"open", "closed"}
    /\ handler[s] = "none"
    /\ hctx' = [hctx EXCEPT ![s] = remotePeer[s]]
    /\ bridge' = [bridge EXCEPT ![s] = newSingleUseListener(s)]
    /\ task' = [task EXCEPT ![s] = "start"]
    /\ handler' = [handler EXCEPT ![s] = "returned"]
    /\ UNCHANGED <<acceptVars, bootVars, restVars, mpc, health, handlerSet, grpcStopped,
                   hostClosed, crashed, streamState, remoteClosed, remotePeer,
                   session, sctx, inFlight>>

\* grpcServer.Serve(lis) is entered: a stopped server closes the listener
\* (singleUseListener.Close closes the stream) and returns ErrServerStopped.
ServeStart(s) ==
    /\ ~crashed
    /\ task[s] = "start"
    /\ IF grpcStopped
          THEN /\ task' = [task EXCEPT ![s] = "done"]
               /\ streamState' = [streamState EXCEPT ![s] = "closed"]
          ELSE /\ task' = [task EXCEPT ![s] = "accept"]
               /\ UNCHANGED streamState
    /\ UNCHANGED <<acceptVars, bootVars, restVars, mpc, health, handlerSet, grpcStopped,
                   hostClosed, crashed, remoteClosed, remotePeer, handler, hctx,
                   bridge, session, sctx, inFlight>>

\* One turn of the Serve loop: lis.Accept().  A connection is served in a
\* goroutine of its own (the RPC session) with a context built by the RPC
\* server, unless the server is stopping, when the connection is closed.  An
\* error ends Serve, whose deferred cleanup closes the listener.
ServeAccept(s) ==
    /\ ~crashed
    /\ task[s] = "accept"
    /\ bridge' = [bridge EXCEPT ![s] = AcceptOnce(bridge[s]).lis]
    /\ IF AcceptOnce(bridge[s]).res.err = "nil"
          THEN /\ UNCHANGED task
               /\ IF grpcStopped
                     THEN /\ streamState' = [streamState EXCEPT ![s] = "closed"]
                          /\ UNCHANGED <<session, sctx>>
                     ELSE /\ session' = [session EXCEPT ![s] = "serving"]
                          /\ sctx' = [sctx EXCEPT ![s] = Nil]
                          /\ UNCHANGED streamState
          ELSE /\ task' = [task EXCEPT ![s] = "done"]
               /\ streamState' = [streamState EXCEPT ![s] = "closed"]
               /\ UNCHANGED <<session, sctx>>
    /\ UNCHANGED <<acceptVars, bootVars, restVars, mpc, health, handlerSet, grpcStopped,
                   hostClosed, crashed, remoteClosed, remotePeer, handler, hctx,
                   inFlight>>

\* The remote peer invokes a method.  StreamTelemetry starts with
\* stream.Context().Value("peerid").(string): with no such value the type
\* assertion panics, and nothing between the handler and the top of its
\* goroutine recovers.  The other methods do not read the context.
SessionRPC(s) ==
    /\ ~crashed
    /\ session[s] = "serving"
    /\ \E m \in Methods :
          IF m = "StreamTelemetry" /\ sctx[s] = Nil
             THEN /\ session' = [session EXCEPT ![s] = "panicked"]
                  /\ crashed' = TRUE
             ELSE UNCHANGED <<session, crashed>>
    /\ UNCHANGED <<acceptVars, bootVars, restVars, mpc, health, handlerSet, grpcStopped,
                   hostClosed, streamState, remoteClosed, remotePeer, handler, hctx,
                   bridge, task, sctx, inFlight>>

\* The remote peer closes its side of the stream.
RemoteClose(s) ==
    /\ ~crashed
    /\ streamState[s] = "open"
    /\ ~remoteClosed[s]
    /\ remoteClosed' = [remoteClosed EXCEPT ![s] = TRUE]
    /\ UNCHANGED <<acceptVars, bootVars, restVars, mpc, health, handlerSet, grpcStopped,
                   hostClosed, crashed, streamState, remotePeer, handler, hctx,
                   bridge, task, session, sctx, inFlight>>

\* The session's transport reads end-of-input or an error and the session ends.
SessionEnd(s) ==
    /\ ~crashed
    /\ session[s] = "serving"
    /\ remoteClosed[s] \/ streamState[s] = "closed"
    /\ session' = [session EXCEPT ![s] = "done"]
    /\ UNCHANGED <<acceptVars, bootVars, restVars, mpc, health, handlerSet, grpcStopped,
                   hostClosed, crashed, streamState, remoteClosed, remotePeer,
                   handler, hctx, bridge, task, sctx, inFlight>>

\* SIGINT or SIGTERM arrives on sigChan.
MainSignal ==
    /\ ~crashed
    /\ mpc = "running"
    /\ mpc' = "signalled"
    /\ UNCHANGED <<acceptVars, bootVars, restVars, health, handlerSet, grpcStopped,
                   hostClosed, crashed, streamState, remoteClosed, remotePeer,
                   handler, hctx, bridge, task, session, sctx, inFlight>>

\* A GracefulStop after which the server still takes new listeners.
GracefulStopBeginNoFlag ==
    /\ ~crashed
    /\ mpc = "signalled"
    /\ mpc' = "draining"
    /\ streamState' = [s \in Streams |->
                    IF task[s] = "accept" THEN "closed" ELSE streamState[s]]
    /\ inFlight' = {s \in Streams : session[s] = "serving"}
    /\ UNCHANGED <<acceptVars, bootVars, restVars, health, handlerSet, hostClosed,
                   crashed, remoteClosed, remotePeer, handler, hctx, bridge,
                   task, session, sctx, grpcStopped>>

\* Server.GracefulStop is entered: grpcServer.GracefulStop() stops accepting
\* and closes the listeners that Serve calls have registered.
GracefulStopBegin ==
    /\ ~crashed
    /\ mpc = "signalled"
    /\ mpc' = "draining"
    /\ grpcStopped' = TRUE
    /\ streamState' = [s \in Streams |->
                    IF task[s] = "accept" THEN "closed" ELSE streamState[s]]
    /\ inFlight' = {s \in Streams : session[s] = "serving"}
    /\ UNCHANGED <<acceptVars, bootVars, restVars, health, handlerSet, hostClosed,
                   crashed, remoteClosed, remotePeer, handler, hctx, bridge,
                   task, session, sctx>>

\* A Shutdown that flips the status it finds.
HealthShutdownToggles(h) == IF h = "NOT_SERVING" THEN "SERVING" ELSE "NOT_SERVING"

\* healthServer.Shutdown(): every service status becomes NOT_SERVING.
HealthShutdown(h) == "NOT_SERVING"

\* Host.Close(): the open streams are reset; those already closed stay so.
HostClose(ss) == [s \in Streams |-> IF ss[s] = "open" THEN "closed" ELSE ss[s]]

\* Host.Close() runs its teardown under a sync.Once and returns nil on a
\* repeated call.
HostCloseErr(closed) == FALSE

\* grpcServer.GracefulStop() returns once the Serve calls have returned and
\* every pending session is finished; then healthServer.Shutdown().
GracefulStopReturn ==
    /\ ~crashed
    /\ mpc = "draining"
    /\ \A s \in Streams : task[s] # "accept" /\ session[s] # "serving"
    /\ mpc' = "stopped"
    /\ health' = HealthShutdown(health)
    /\ UNCHANGED <<acceptVars, bootVars, restVars, handlerSet, grpcStopped, hostClosed,
                   crashed, streamState, remoteClosed, remotePeer, handler, hctx,
                   bridge, task, session, sctx, inFlight>>

\* A main that releases the Host as soon as the signal has arrived.
MainCloseEarly ==
    /\ ~crashed
    /\ mpc \in {"signalled", "draining", "stopped"}
    /\ mpc' = "closed"
    /\ hostClosed' = TRUE
    /\ streamState' = [s \in Streams |->
                    IF streamState[s] = "open" THEN "closed" ELSE streamState[s]]
    /\ UNCHANGED <<acceptVars, bootVars, restVars, health, handlerSet, grpcStopped,
                   crashed, remoteClosed, remotePeer, handler, hctx, bridge,
                   task, session, sctx, inFlight>>

\* p2pNode.Close(): Host.Close() releases the sockets and the open streams.
MainClose ==
    /\ ~crashed
    /\ mpc = "stopped"
    /\ mpc' = "closed"
    /\ hostClosed' = TRUE
    /\ streamState' = [s \in Streams |->
                    IF streamState[s] = "open" THEN "closed" ELSE streamState[s]]
    /\ UNCHANGED <<acceptVars, bootVars, restVars, health, handlerSet, grpcStopped,
                   crashed, remoteClosed, remotePeer, handler, hctx, bridge,
                   task, session, sctx, inFlight>>

\* cancel(), and main returns.
MainCancel ==
    /\ ~crashed
    /\ mpc = "closed"
    /\ mpc' = "exit"
    /\ UNCHANGED <<acceptVars, bootVars, restVars, health, handlerSet, grpcStopped,
                   hostClosed, crashed, streamState, remoteClosed, remotePeer,
                   handler, hctx, bridge, task, session, sctx, inFlight>>

\* Server.GracefulStop is called again after it has returned: a stopped
\* grpcServer has no listener and no session left to wait for.
GracefulStopAgain ==
    /\ ~crashed
    /\ mpc \in {"stopped", "closed"}
    /\ reStops + reCloses < MaxRepeatCalls
    /\ \A s \in Streams : task[s] # "accept" /\ session[s] # "serving"
    /\ grpcStopped' = TRUE
    /\ health' = HealthShutdown(health)
    /\ reStops' = reStops + 1
    /\ UNCHANGED <<acceptVars, nodeVars, bootVars, refreshVars, dialVars, connVars, mpc,
                   handlerSet, hostClosed, crashed, streamState, remoteClosed,
                   remotePeer, handler, hctx, bridge, task, session, sctx,
                   inFlight, reCloses, shutErr, bootRet, lateStreams>>

\* Node.Close is called again after it has returned (a deferred Close after
\* an explicit one): return n.Host.Close()
CloseAgain ==
    /\ ~crashed
    /\ mpc = "closed"
    /\ reStops + reCloses < MaxRepeatCalls
    /\ hostClosed' = TRUE
    /\ streamState' = HostClose(streamState)
    /\ shutErr' = (shutErr \/ HostCloseErr(hostClosed))
    /\ reCloses' = reCloses + 1
    /\ UNCHANGED <<acceptVars, nodeVars, bootVars, refreshVars, dialVars, connVars, mpc,
                   health, handlerSet, grpcStopped, crashed, remoteClosed,
                   remotePeer, handler, hctx, bridge, task, session, sctx,
                   inFlight, reStops, bootRet, lateStreams>>

StreamStep(s) ==
    \/ \E p \in Peers : StreamArrive(s, p)
    \/ StreamRefused(s)
    \/ HandleStream(s)
    \/ ServeStart(s)
    \/ ServeAccept(s)
    \/ SessionRPC(s)
    \/ RemoteClose(s)
    \/ SessionEnd(s)

ServeNext ==
    \/ MainNewNode
    \/ MainBootstrapReturn
    \/ MainNewServer
    \/ MainServe
    \/ \E s \in Streams : StreamStep(s)
    \/ MainSignal
    \/ GracefulStopBegin
    \/ GracefulStopReturn
    \/ MainClose
    \/ MainCancel
    \/ GracefulStopAgain
    \/ CloseAgain

\* ------------------------------------------------------------------ NewNode
\* The two addresses given to libp2p.ListenAddrStrings.
ListenAddrs == {"ip4", "ip6"}

\* A NewNode call that has returned nothing yet.
NoReturn == [host |-> FALSE, addrs |-> {}, err |-> "none", noBind |-> FALSE]

\* Listen addresses that another node of the machine holds on the fixed port.
Held(n) == UNION {nbound[m] : m \in {k \in Nodes \ {n} : nport[k] = "fixed"}}

\* libp2p.New(...): the host listens on the addresses that could be bound and
\* is returned if at least one could and the rest of the host was built;
\* otherwise the host is closed and an error returned.
Libp2pNew(bound, built) ==
    IF bound = {} \/ ~built
       THEN [addrs |-> {}, err |-> TRUE, noBind |-> bound = {}]
       ELSE [addrs |-> bound, err |-> FALSE, noBind |-> FALSE]

\* A NewNode that wraps whatever libp2p.New returned into a Node.
NewNodeResultIgnoresErr(h) ==
    [host |-> TRUE, addrs |-> h.addrs, err |-> "nil", noBind |-> h.noBind]

\* if err != nil { return nil, fmt.Errorf("failed to create libp2p host") };
\* otherwise the Node with the host, whose Addrs() are logged.
NewNodeResult(h) ==
    IF h.err
       THEN [host |-> FALSE, addrs |-> {}, err |-> "Libp2pHost", noBind |-> h.noBind]
       ELSE [host |-> TRUE, addrs |-> h.addrs, err |-> "nil", noBind |-> FALSE]

NodeInit ==
    /\ npc = [n \in Nodes |-> "idle"]
    /\ nport = [n \in Nodes |-> "any"]
    /\ nbound = [n \in Nodes |-> {}]
    /\ nret = [n \in Nodes |-> NoReturn]

\* No node is being created.
NodeQuiet == NodeInit

\* NewNode(ctx, cfg) is entered with cfg.P2PPort 0 or a fixed port.
NewNodeCall(n, port) ==
    /\ npc[n] = "idle"
    /\ npc' = [npc EXCEPT ![n] = "keygen"]
    /\ nport' = [nport EXCEPT ![n] = port]
    /\ UNCHANGED <<acceptVars, bootVars, serveVars, refreshVars, dialVars, connVars,
                   shutVars, nbound, nret>>

\* crypto.GenerateKeyPair(crypto.Ed25519, -1); an error is returned at once.
NewNodeKeyPair(n) ==
    /\ npc[n] = "keygen"
    /\ \E ok \in BOOLEAN :
          IF ok
             THEN npc' = [npc EXCEPT ![n] = "host"] /\ UNCHANGED nret
             ELSE /\ npc' = [npc EXCEPT ![n] = "done"]
                  /\ nret' = [nret EXCEPT ![n] =
                        [host |-> FALSE, addrs |-> {}, err |-> "KeyPair",
                         noBind |-> FALSE]]
    /\ UNCHANGED <<acceptVars, bootVars, serveVars, refreshVars, dialVars, connVars,
                   shutVars, nport, nbound>>

\* libp2p.New and the rest of NewNode.  An address held by another node on
\* the same fixed port cannot be bound; any address can fail to bind.
NewNodeHost(n) ==
    /\ npc[n] = "host"
    /\ \E bound \in SUBSET (IF nport[n] = "fixed" THEN ListenAddrs \ Held(n)
                                                  ELSE ListenAddrs),
          built \in BOOLEAN :
          /\ nret' = [nret EXCEPT ![n] = NewNodeResult(Libp2pNew(bound, built))]
          /\ nbound' = [nbound EXCEPT ![n] = Libp2pNew(bound, built).addrs]
    /\ npc' = [npc EXCEPT ![n] = "done"]
    /\ UNCHANGED <<acceptVars, bootVars, serveVars, refreshVars, dialVars, connVars,
                   shutVars, nport>>

\* Node.Close on a created node: Host.Close releases its sockets.
NodeClose(n) ==
    /\ npc[n] = "done"
    /\ nret[n].host
    /\ npc' = [npc EXCEPT ![n] = "closed"]
    /\ nbound' = [nbound EXCEPT ![n] = {}]
    /\ UNCHANGED <<acceptVars, bootVars, serveVars, refreshVars, dialVars, connVars,
                   shutVars, nport, nret>>

NodeNext ==
    \E n \in Nodes :
        \/ \E port \in {"any", "fixed"} : NewNodeCall(n, port)
        \/ NewNodeKeyPair(n)
        \/ NewNodeHost(n)
        \/ NodeClose(n)

\* ------------------------------------------------------------ Node.DialGRPC
\* What a DialGRPC call hands back: (client connection, nil) or (nil, error).
\* A client connection is identified by the stream its dialer returns.
ClientConn(stream) == [conn |-> stream, err |-> "nil"]
PeerUnreachable == [conn |-> Nil, err |-> "PeerUnreachable"]

\* A node whose Host can resolve the addresses of some peers.
DialInit ==
    /\ peerstore \in SUBSET Peers
    /\ gpc = "idle"
    /\ gpeer = Nil
    /\ gstream = Nil
    /\ gcalls = <<>>
    /\ gtrans = [i \in 1..MaxDials |-> "idle"]
    /\ handed = <<>>

\* The Host learns the address of a peer (identify, DHT lookup).
AddrLearn(p) ==
    /\ p \notin peerstore
    /\ peerstore' = peerstore \cup {p}
    /\ UNCHANGED <<acceptVars, nodeVars, bootVars, serveVars, refreshVars, connVars, shutVars,
                   gpc, gpeer, gstream, gcalls,
                   gtrans, handed>>

\* DialGRPC(ctx, peerID) is entered.
DialGRPCCall(p) ==
    /\ gpc = "idle"
    /\ Len(gcalls) < MaxDials
    /\ gpeer' = p
    /\ gstream' = Nil
    /\ gpc' = "newstream"
    /\ UNCHANGED <<acceptVars, nodeVars, bootVars, serveVars, refreshVars, connVars, shutVars,
                   peerstore, gcalls,
                   gtrans, handed>>

\* n.Host.NewStream(ctx, peerID, MeshProtocolID): fails when no address of the
\* peer can be resolved; otherwise the peer opens the stream or the dial, or
\* the protocol negotiation, fails.  A stream is named by the call opening it.
NewStream ==
    /\ gpc = "newstream"
    /\ \E opened \in (IF gpeer \in peerstore THEN BOOLEAN ELSE {FALSE}) :
          IF opened
             THEN gstream' = Len(gcalls) + 1 /\ gpc' = "opened"
             ELSE gstream' = Nil /\ gpc' = "failed"
    /\ UNCHANGED <<acceptVars, nodeVars, bootVars, serveVars, refreshVars, connVars, shutVars,
                   peerstore, gpeer, gcalls,
                   gtrans, handed>>

\* A DialGRPC that builds the client whatever NewStream returned.
DialGRPCReturnIgnoresErr ==
    /\ gpc \in {"opened", "failed"}
    /\ gcalls' = Append(gcalls, [peer |-> gpeer,
                                  resolved |-> gpeer \in peerstore,
                                  opened |-> gpc = "opened",
                                  ret |-> ClientConn(Len(gcalls) + 1)])
    /\ gpc' = "idle"
    /\ UNCHANGED <<acceptVars, nodeVars, bootVars, serveVars, refreshVars, connVars, shutVars,
                   peerstore, gpeer, gstream,
                   gtrans, handed>>

\* if err != nil { return nil, fmt.Errorf("failed to open libp2p stream ...") }
\* conn := &lp2pStreamConn{Stream: stream}; return grpc.NewClient(...), nil
DialGRPCReturn ==
    /\ gpc \in {"opened", "failed"}
    /\ gcalls' = Append(gcalls, [peer |-> gpeer,
                                  resolved |-> gpeer \in peerstore,
                                  opened |-> gpc = "opened",
                                  ret |-> IF gpc = "failed" THEN PeerUnreachable
                                          ELSE ClientConn(gstream)])
    /\ gpc' = "idle"
    /\ UNCHANGED <<acceptVars, nodeVars, bootVars, serveVars, refreshVars, connVars, shutVars,
                   peerstore, gpeer, gstream,
                   gtrans, handed>>

\* The RPC client of call i has no transport and invokes the dialer given to
\* grpc.WithContextDialer: func(ctx, s) (net.Conn, error) { return conn, nil },
\* conn being the one lp2pStreamConn built by the call.
DialerInvoke(i) ==
    /\ i \in 1..Len(gcalls)
    /\ gcalls[i].ret.conn # Nil
    /\ gtrans[i] \in {"idle", "closed"}
    /\ Len(handed) < MaxRedials
    /\ handed' = Append(handed, [client |-> i,
                                  conn |-> gcalls[i].ret.conn,
                                  stale |-> gtrans[i] = "closed"])
    /\ gtrans' = [gtrans EXCEPT ![i] = "ready"]
    /\ UNCHANGED <<acceptVars, nodeVars, bootVars, serveVars, refreshVars, connVars, shutVars,
                   peerstore, gpc, gpeer, gstream, gcalls>>

\* The transport of client i fails or is torn down: it closes its net.Conn
\* (lp2pStreamConn.Close closes the stream) and the client will dial again.
TransportClose(i) ==
    /\ gtrans[i] = "ready"
    /\ gtrans' = [gtrans EXCEPT ![i] = "closed"]
    /\ UNCHANGED <<acceptVars, nodeVars, bootVars, serveVars, refreshVars, connVars, shutVars,
                   peerstore, gpc, gpeer, gstream, gcalls, handed>>

DialNext ==
    \/ \E p \in Peers : AddrLearn(p) \/ DialGRPCCall(p)
    \/ NewStream
    \/ DialGRPCReturn
    \/ \E i \in 1..MaxDials : DialerInvoke(i) \/ TransportClose(i)

\* ------------------------------------- lp2pStreamConn, singleUseListener.Close
\* The byte values a writer puts on stream s: each stream carries its own.
Payloads(s) == {2 * s - 1, 2 * s}

\* Every stream is open to the same remote peer on MeshProtocolID, each one
\* wrapped in an lp2pStreamConn and a singleUseListener of its own.
ConnInit ==
    /\ closedStreams = {}
    /\ sent = [s \in Streams |-> <<>>]
    /\ wire = [s \in Streams |-> <<>>]
    /\ rcvd = [s \in Streams |-> <<>>]

\* A Write that lands on the first stream of the connection.
ConnWriteShared(s, b) ==
    /\ s \notin closedStreams
    /\ Len(sent[s]) < MaxWrite
    /\ sent' = [sent EXCEPT ![s] = Append(@, b)]
    /\ wire' = [wire EXCEPT ![1] = Append(@, b)]
    /\ UNCHANGED <<acceptVars, nodeVars, bootVars, serveVars, refreshVars, dialVars, shutVars,
                   closedStreams, rcvd>>

\* lp2pStreamConn.Write: return c.Stream.Write(b)
ConnWrite(s, b) ==
    /\ s \notin closedStreams
    /\ Len(sent[s]) < MaxWrite
    /\ sent' = [sent EXCEPT ![s] = Append(@, b)]
    /\ wire' = [wire EXCEPT ![s] = Append(@, b)]
    /\ UNCHANGED <<acceptVars, nodeVars, bootVars, serveVars, refreshVars, dialVars, shutVars,
                   closedStreams, rcvd>>

\* lp2pStreamConn.Read at the other end: return c.Stream.Read(b)
ConnRead(s) ==
    /\ s \notin closedStreams
    /\ wire[s] # <<>>
    /\ rcvd' = [rcvd EXCEPT ![s] = Append(@, Head(wire[s]))]
    /\ wire' = [wire EXCEPT ![s] = Tail(@)]
    /\ UNCHANGED <<acceptVars, nodeVars, bootVars, serveVars, refreshVars, dialVars, shutVars,
                   closedStreams, sent>>

\* lp2pStreamConn.Close: return c.Stream.Close()
ConnClose(s) ==
    /\ closedStreams' = closedStreams \cup {s}
    /\ UNCHANGED <<acceptVars, nodeVars, bootVars, serveVars, refreshVars, dialVars, shutVars,
                   sent, wire, rcvd>>

\* A listener Close that closes the connection the stream runs on.
ListenerCloseAll(s) ==
    /\ closedStreams' = Streams
    /\ UNCHANGED <<acceptVars, nodeVars, bootVars, serveVars, refreshVars, dialVars, shutVars,
                   sent, wire, rcvd>>

\* singleUseListener.Close: return l.stream.Close()
ListenerClose(s) ==
    /\ closedStreams' = closedStreams \cup {s}
    /\ UNCHANGED <<acceptVars, nodeVars, bootVars, serveVars, refreshVars, dialVars, shutVars,
                   sent, wire, rcvd>>

ConnStep(s) ==
    \/ \E b \in Payloads(s) : ConnWrite(s, b)
    \/ ConnRead(s)
    \/ ConnClose(s)
    \/ ListenerClose(s)

ConnNext == \E s \in Streams : ConnStep(s)

\* ----------------------------------------------------------- specifications
\* The parts of the model a specification does not exercise stay as built.
DialQuiet ==
    /\ peerstore = {}
    /\ gpc = "idle"
    /\ gpeer = Nil
    /\ gstream = Nil
    /\ gcalls = <<>>
    /\ gtrans = [i \in 1..MaxDials |-> "idle"]
    /\ handed = <<>>

ConnQuiet ==
    /\ closedStreams = {}
    /\ sent = [s \in Streams |-> <<>>]
    /\ wire = [s \in Streams |-> <<>>]
    /\ rcvd = [s \in Streams |-> <<>>]

ShutQuiet ==
    /\ reStops = 0
    /\ reCloses = 0
    /\ shutErr = FALSE
    /\ bootRet = "none"
    /\ lateStreams = {}

AcceptSpecInit ==
    AcceptInit /\ BootQuiet /\ ServeQuiet /\ RefreshQuiet /\ DialQuiet /\ ConnQuiet /\ ShutQuiet /\ NodeQuiet

AcceptSpec == AcceptSpecInit /\ [][AcceptNext]_vars

\* Go's scheduler runs every runnable goroutine again, and sync.Mutex hands the
\* lock to a waiter once it is free.
AcceptFairSpec == AcceptSpec /\ \A c \in Callers : WF_vars(AcceptStep(c))

BootstrapSpecInit ==
    BootInit /\ AcceptQuiet /\ ServeQuiet /\ RefreshQuiet /\ DialQuiet /\ ConnQuiet /\ ShutQuiet /\ NodeQuiet

BootstrapSpec == BootstrapSpecInit /\ [][BootNext]_vars

\* The goroutines of a Bootstrap call are scheduled again, and a Connect that
\* waits returns.
BootstrapFairSpec ==
    /\ BootstrapSpec
    /\ WF_vars(BootstrapSpawn)
    /\ \A i \in 1..MaxSeeds : WF_vars(DialStep(i))
    /\ WF_vars(BootstrapWait)
    /\ WF_vars(BootstrapDHT)

\* A node started with at most one join address, its stats goroutine observed.
RefreshSpecInit ==
    /\ BootInit
    /\ Len(joinAddresses) <= 1
    /\ RefreshInit
    /\ AcceptQuiet /\ ServeQuiet /\ DialQuiet /\ ConnQuiet /\ ShutQuiet /\ NodeQuiet

RefreshSpec == RefreshSpecInit /\ [][RefreshNext]_vars

\* The stats goroutine is scheduled again.
RefreshFairSpec == RefreshSpec /\ WF_vars(LoopExit)

DialSpecInit ==
    DialInit /\ AcceptQuiet /\ BootQuiet /\ ServeQuiet /\ RefreshQuiet /\ ConnQuiet /\ ShutQuiet /\ NodeQuiet

DialSpec == DialSpecInit /\ [][DialNext]_vars

ConnSpecInit ==
    ConnInit /\ AcceptQuiet /\ BootQuiet /\ ServeQuiet /\ RefreshQuiet /\ DialQuiet /\ ShutQuiet /\ NodeQuiet

ConnSpec == ConnSpecInit /\ [][ConnNext]_vars

ServeSpecInit ==
    ServeInit /\ AcceptQuiet /\ BootQuiet /\ RefreshQuiet /\ DialQuiet /\ ConnQuiet /\ ShutQuiet /\ NodeQuiet

ServeSpec == ServeSpecInit /\ [][ServeNext]_vars

NodeSpecInit ==
    NodeInit /\ AcceptQuiet /\ BootQuiet /\ ServeQuiet /\ RefreshQuiet /\ DialQuiet /\ ConnQuiet /\ ShutQuiet

NodeSpec == NodeSpecInit /\ [][NodeNext]_vars

\* ---------------------------------------------------------------- C1, C2
Returned(i) == calls[i] # Pending
ConnCalls == {i \in 1..Len(calls) : calls[i].conn # Nil}
AllReturned == \A c \in Callers : apc[c] = "idle"

\* C1: when the Accept calls on an instance are sequential (none is invoked
\* while another is pending), the first call returns a connection wrapping
\* exactly the stream the instance was constructed with, and every later call
\* returns (nil, io.EOF).
C1_SequentialAccept ==
    ~overlap =>
        \A i \in 1..Len(calls) :
            Returned(i) =>
                calls[i] = IF i = 1 THEN lp2pStreamConn(lis.stream) ELSE EOF

C1_Witness ==
    /\ ~overlap
    /\ Len(calls) >= 3
    /\ calls[1] = lp2pStreamConn(lis.stream)
    /\ calls[2] = EOF
    /\ calls[3] = EOF

\* C2: under every interleaving of concurrent Accept calls on one instance, at
\* most one call ever gets the connection, every other call that returns gets
\* io.EOF, once all calls have returned exactly one got the connection, and
\* every call that was invoked returns (no caller waits forever).
C2_FirstCallerWins ==
    /\ [](/\ Cardinality(ConnCalls) <= 1
          /\ \A i \in 1..Len(calls) :
                Returned(i) => calls[i] \in {lp2pStreamConn(lis.stream), EOF}
          /\ (AllReturned /\ calls # <<>>) => Cardinality(ConnCalls) = 1)
    /\ \A c \in Callers : (apc[c] # "idle") ~> (apc[c] = "idle")

\* Two overlapping calls have returned, and the one invoked first lost.
C2_Witness ==
    /\ overlap
    /\ AllReturned
    /\ Len(calls) >= 2
    /\ calls[1] = EOF
    /\ calls[2] = lp2pStreamConn(lis.stream)

\* ------------------------------------------------------------- C3 .. C6
\* The last Bootstrap call has returned to its caller.
BootReturned == bpc = "idle" /\ bret # "none"
\* Join addresses are configured and every one of them parses.
Configured == Len(joinAddresses) > 0 /\ ~parsePeers(joinAddresses).err

\* C3 as stated: with N >= 1 seeds dialed of which M > 0 accepted the dial,
\* Bootstrap has returned success and the routing table holds at least M
\* entries at that moment.
C3_BootstrapFillsTable ==
    (BootReturned /\ Configured /\ okDials # {}) =>
        /\ bret = "nil"
        /\ Cardinality(routingTable) >= Cardinality(okDials)

\* C3 as amended: with N >= 1 seeds dialed of which M > 0 accepted the dial,
\* under every interleaving of the dial goroutines (lost updates of the
\* counter included) Bootstrap does not return the no-peer-reachable error:
\* it returns nil unless the DHT bootstrap step fails.  The routing table is
\* filled by the DHT later and may hold fewer than M entries at that moment.
C3_BootstrapConnects ==
    (BootReturned /\ bootstrapPeers # <<>> /\ okDials # {}) =>
        bret \in {"nil", "ErrDHT"}

\* Two configured seeds, one accepted; success, table not yet filled.
C3_Witness ==
    /\ BootReturned
    /\ Configured
    /\ Len(bootstrapPeers) = 2
    /\ Cardinality(okDials) = 1
    /\ bret = "nil"
    /\ routingTable = {}

\* C4: when a Bootstrap call that dialed N >= 1 seeds has returned and no
\* seed accepted the dial, it returned the no-peer-reachable error, and the
\* routing table is the one found when the call was entered (as long as the
\* DHT has recorded no other connection in the meantime).
C4_AllUnreachable ==
    (BootReturned /\ bootstrapPeers # <<>> /\ okDials = {}) =>
        /\ bret = "ErrNoPeers"
        /\ quiet => routingTable = rtAtCall

\* Configured seeds all refused; a routing table with an entry was kept.
C4_Witness ==
    /\ BootReturned
    /\ Configured
    /\ okDials = {}
    /\ bret = "ErrNoPeers"
    /\ quiet
    /\ rtAtCall # {}
    /\ routingTable = rtAtCall

\* C5 as stated: with no join address configured the default seeds are
\* dialed, and Bootstrap never returns success when no seed was connected,
\* an empty default list included.
C5_NoSuccessWithoutPeers ==
    (BootReturned /\ joinAddresses = <<>>) =>
        /\ bootstrapPeers = defaultPeers
        /\ okDials = {} => bret # "nil"

\* C5 as amended: with no join address configured the default seeds are
\* dialed; when that list is not empty and no default seed accepted the dial
\* Bootstrap returns the no-peer-reachable error; when the list is empty
\* nothing is dialed and the call goes on to the DHT bootstrap step.
C5_DefaultSeedsDialed ==
    (BootReturned /\ joinAddresses = <<>>) =>
        /\ bootstrapPeers = defaultPeers
        /\ (okDials = {} /\ defaultPeers # <<>>) => bret = "ErrNoPeers"
        /\ defaultPeers = <<>> => bret \in {"nil", "ErrDHT"}

\* No join address, default seeds dialed, none accepted: failure.
C5_Witness ==
    /\ BootReturned
    /\ joinAddresses = <<>>
    /\ bootstrapPeers = defaultPeers
    /\ defaultPeers # <<>>
    /\ okDials = {}
    /\ bret = "ErrNoPeers"

\* C6: Bootstrap on the first node of a mesh (no join address configured, no
\* peer connected, none accepting a dial, context live) returns no error
\* unless the initialization of its own DHT fails.
C6_SeedNodeBootstraps ==
    (BootReturned /\ joinAddresses = <<>> /\ connected = {} /\ ~ctxDone) =>
        bret \in {"nil", "ErrDHT"}

\* ------------------------------------------------------------ C7 .. C10
\* C7: the RPC handlers serving a stream find, in their request context, the
\* peer identifier of that stream's remote peer: never an absent value,
\* never the peer of another stream.
C7_PeerIdInContext ==
    \A s \in Streams : session[s] # "none" => sctx[s] = remotePeer[s]

\* C8: a panic raised by a handler of one stream's session is turned into an
\* error return inside that session: the process (the Host and the sessions
\* of the other streams with it) is not terminated.
C8_PanicIsolated ==
    \A s \in Streams : session[s] = "panicked" => ~crashed

\* C9: every stream handed to the stream handler has a listener of its own
\* wrapping that stream and a serve goroutine of its own; the handler has
\* returned without waiting for the session; and whatever the other streams'
\* sessions are doing, the handler call, the Serve loop and the session of a
\* stream can take their next step.
C9_IndependentSessions ==
    \A s \in Streams :
        /\ handler[s] \in {"none", "returned"}
        /\ handler[s] = "returned" => (bridge[s].stream = s /\ task[s] # "none")
        /\ (~crashed /\ streamState[s] \in {"open", "closed"} /\ handler[s] = "none")
              => ENABLED HandleStream(s)
        /\ (~crashed /\ task[s] \in {"start", "accept"})
              => ENABLED (ServeStart(s) \/ ServeAccept(s))
        /\ (~crashed /\ session[s] = "serving") => ENABLED SessionRPC(s)

\* A session is running on one stream, its remote never having closed, while
\* the other stream's handler has returned and its session is running too.
C9_Witness ==
    /\ \A s \in Streams : handler[s] = "returned" /\ session[s] = "serving"
    /\ \E s \in Streams : ~remoteClosed[s] /\ streamState[s] = "open"
    /\ ~crashed

\* C10: in no state is the Host closed while an RPC session is running, the
\* sessions that were running when GracefulStop was entered included.
C10_DrainBeforeClose ==
    hostClosed => \A s \in Streams : session[s] # "serving"

\* The Host is closed, and a session that was in flight when GracefulStop was
\* entered has ended.
C10_Witness ==
    /\ hostClosed
    /\ inFlight # {}
    /\ \A s \in inFlight : session[s] = "done"

\* ------------------------------------------------------------ C11 .. C14
\* Dial goroutine i has run its deferred wg.Done().
DialFinished(i) == dial[i] \in {"done", "timedout"}

\* C11: once a Bootstrap call is past its barrier (taking the reachability
\* decision, in the DHT step, or returned with success or failure) every dial
\* goroutine it spawned, one per seed, has completed.
C11_BarrierBeforeReturn ==
    (bcalls > 0 /\ bpc # "spawn") =>
        /\ Len(dial) = Len(bootstrapPeers)
        /\ \A i \in 1..Len(dial) : DialFinished(i)
        /\ wg = 0

\* Both outcomes after two dial goroutines: a failure and a success.
C11_Witness ==
    /\ BootReturned
    /\ Len(dial) = 2
    /\ \A i \in 1..Len(dial) : DialFinished(i)
    /\ bret \in {"nil", "ErrNoPeers"}
    /\ bcalls = 2

\* C12 as stated: the only error Bootstrap returns is the no-peer-reachable
\* error, and whenever a seed dial succeeded it returns nil.
C12_OnlyNoPeersError ==
    BootReturned =>
        /\ bret \in {"nil", "ErrNoPeers"}
        /\ okDials # {} => bret = "nil"

\* C12 as amended: Bootstrap returns nil or one of two errors; the
\* no-peer-reachable error exactly when seeds were dialed and no dial
\* succeeded (failures of some dials beside a success do not produce it), and
\* otherwise the error of the DHT bootstrap step when that step fails.
C12_ErrorsReturned ==
    BootReturned =>
        /\ bret \in {"nil", "ErrNoPeers", "ErrDHT"}
        /\ bret = "ErrNoPeers" <=> (bootstrapPeers # <<>> /\ okDials = {})

\* One of two dials succeeded and the DHT step failed: an error is returned.
C12_Witness ==
    /\ BootReturned
    /\ Len(bootstrapPeers) = 2
    /\ Cardinality(okDials) = 1
    /\ bret = "ErrDHT"

\* Seeds were dialed, none has accepted, and some dial is still waiting for a
\* peer that does not answer.
NoneReachable ==
    /\ bpc = "spawn"
    /\ bootstrapPeers # <<>>
    /\ Len(dial) = Len(bootstrapPeers)
    /\ okDials = {}
    /\ \A i \in 1..Len(dial) : dial[i] \in {"waiting", "done", "timedout"}
    /\ \E i \in 1..Len(dial) : dial[i] = "waiting"

\* C13: every Bootstrap call eventually returns, and a call none of whose
\* seeds is reachable, seeds that never answer the dial included, eventually
\* returns the no-peer-reachable error.
C13_BootstrapReturns ==
    /\ (bpc # "idle") ~> BootReturned
    /\ NoneReachable ~> (BootReturned /\ bret = "ErrNoPeers")

\* Two seeds that never answered, the context still live: the error came.
C13_Witness ==
    /\ BootReturned
    /\ ~ctxDone
    /\ Len(dial) = 2
    /\ \A i \in 1..Len(dial) : dial[i] = "timedout"
    /\ bret = "ErrNoPeers"

\* C14 as stated: the stats goroutine returns only when the context is
\* cancelled, after the cancellation every running one eventually returns,
\* and no table size is logged after the cancellation.
C14_NoLogAfterCancel ==
    /\ [][loops' < loops => ctxDone]_vars
    /\ (ctxDone /\ loops > 0) ~> (loops = 0)
    /\ [](~lateLog)

\* C14 as amended: the stats goroutine returns only when the context is
\* cancelled, and after the cancellation every running one eventually
\* returns; a table size is logged only by a goroutine that is still running
\* and holds a tick delivered before it saw the cancellation.
C14_LoopUntilCancel ==
    /\ [][loops' < loops => ctxDone]_vars
    /\ (ctxDone /\ loops > 0) ~> (loops = 0)
    /\ [][(lateLog' /\ ~lateLog) => (loops > 0 /\ tick /\ ctxDone)]_vars
    /\ [](loops = 0 => ~ENABLED LoopLog)

\* The context is cancelled, a size was logged afterwards, the loop is gone.
C14_Witness ==
    /\ ctxDone
    /\ lateLog
    /\ loops = 0
    /\ bret = "nil"

\* ------------------------------------------------------------ C16 .. C20
\* C16: a DialGRPC call to a peer whose address was not resolved, or to which
\* the stream was not opened, returns the PeerUnreachable error and no client
\* connection; a call returns a client connection only when the stream to
\* that peer was opened, and the connection is the one over that stream.
C16_DialUnreachable ==
    \A i \in 1..Len(gcalls) :
        /\ (~gcalls[i].resolved \/ ~gcalls[i].opened) => gcalls[i].ret = PeerUnreachable
        /\ gcalls[i].ret.conn # Nil =>
              (gcalls[i].opened /\ gcalls[i].resolved /\ gcalls[i].ret = ClientConn(i))

\* An unresolved peer, a resolved peer that refused, and an opened stream.
C16_Witness ==
    /\ Len(gcalls) = 3
    /\ ~gcalls[1].resolved /\ gcalls[1].ret = PeerUnreachable
    /\ gcalls[2].resolved /\ ~gcalls[2].opened /\ gcalls[2].ret = PeerUnreachable
    /\ gcalls[3].opened /\ gcalls[3].ret = ClientConn(3)

\* C17: once the Server exists its serving status of the "" service is
\* NOT_SERVING in every state where the stream handler is not registered, and
\* SERVING only in states where it is.
C17_HealthTracksHandler ==
    health # "none" =>
        /\ ~handlerSet => health = "NOT_SERVING"
        /\ health = "SERVING" => handlerSet

C19_StreamIsolation ==
    \A s \in Streams : rcvd[s] \o wire[s] = sent[s]

\* Two streams carried their own payloads to their own readers.
C19_Witness ==
    /\ rcvd[1] = <<1, 2>>
    /\ rcvd[2] = <<4, 3>>
    /\ wire = [s \in Streams |-> <<>>]

\* C20: Close on the listener of a stream or on its connection closes that
\* stream and changes nothing of any other stream; every stream that was not
\* closed can still be written to and read from.
C20_CloseFrame ==
    /\ [][\A s \in Streams :
            (ConnClose(s) \/ ListenerClose(s)) =>
                /\ s \in closedStreams'
                /\ \A t \in Streams \ {s} :
                      /\ (t \in closedStreams') = (t \in closedStreams)
                      /\ sent'[t] = sent[t]
                      /\ wire'[t] = wire[t]
                      /\ rcvd'[t] = rcvd[t]]_vars
    /\ [](\A t \in Streams \ closedStreams :
            /\ Len(sent[t]) < MaxWrite => ENABLED (\E b \in Payloads(t) : ConnWrite(t, b))
            /\ wire[t] # <<>> => ENABLED ConnRead(t))

\* One stream is closed with its bytes unread; its sibling was written to and
\* read to the end.
C20_Witness ==
    /\ closedStreams = {1}
    /\ wire[1] # <<>>
    /\ Len(sent[2]) = MaxWrite
    /\ rcvd[2] = sent[2]

\* ------------------------------------------------------- C21 .. C23
\* C21: a session whose remote peer closed the stream, and which is over,
\* ended as a normal connection-closed event; it did not end in a failure.
C21_RemoteCloseEndsNormally ==
    \A s \in Streams :
        (remoteClosed[s] /\ session[s] \notin {"none", "serving"})
            => session[s] = "done"

\* A NewNode call of node n has returned.
NodeReturned(n) == npc[n] \in {"done", "closed"}

\* C22 as written: a NewNode call that has returned either returned a host
\* with at least one listen address, or returned no host because no listen
\* address could be bound.
C22_HostOrBindFailure ==
    \A n \in Nodes :
        NodeReturned(n) =>
            \/ nret[n].host /\ nret[n].addrs # {}
            \/ ~nret[n].host /\ nret[n].noBind

\* C22: a NewNode call that has returned either returned a host with at
\* least one listen address and no error, or returned no host and one of its
\* two errors; and when no listen address could be bound it returned no host.
C22_HostHasAddress ==
    \A n \in Nodes :
        NodeReturned(n) =>
            /\ \/ nret[n].host /\ nret[n].err = "nil" /\ nret[n].addrs # {}
               \/ /\ ~nret[n].host
                  /\ nret[n].err \in {"KeyPair", "Libp2pHost"}
                  /\ nret[n].addrs = {}
            /\ nret[n].noBind => ~nret[n].host

\* One node holds the fixed port on both addresses, a second one asked for
\* the same port and got the host-creation error, having bound nothing.
C22_Witness ==
    \E n, m \in Nodes :
        /\ nret[n].host /\ nbound[n] = ListenAddrs /\ nport[n] = "fixed"
        /\ nport[m] = "fixed"
        /\ NodeReturned(m) /\ ~nret[m].host /\ nret[m].noBind

\* ------------------------------------------------------- C24, C28, C30
\* The barrier of a Bootstrap call is open: every goroutine was spawned and
\* has run wg.Done(), and the call has not yet read the counter.
BarrierOpen ==
    /\ bpc = "spawn"
    /\ bcalls > 0
    /\ Len(dial) = Len(bootstrapPeers)
    /\ wg = 0

\* C24: when the barrier of Bootstrap is open, connectedPeers equals the
\* number of seed dials that succeeded, whatever the interleaving of the
\* reads and writes of the dial goroutines.
C24_CountMatchesDials ==
    BarrierOpen => connectedPeers = Cardinality(okDials)

\* Some configured join address does not parse.
HasBadAddr == \E i \in 1..Len(joinAddresses) : joinAddresses[i] = BadAddr

\* C28: in every Bootstrap call the seeds dialed, one dial goroutine per entry
\* of bootstrapPeers, are the default seeds and nothing else when some
\* configured address does not parse, and the configured seeds, in order and
\* nothing else, when addresses are configured and all of them parse.
C28_ParseFailureUsesDefaults ==
    bcalls > 0 =>
        /\ Len(dial) <= Len(bootstrapPeers)
        /\ HasBadAddr => bootstrapPeers = defaultPeers
        /\ (joinAddresses # <<>> /\ ~HasBadAddr) => bootstrapPeers = joinAddresses

\* A good address before a bad one: the default seed was dialed, not the
\* configured one.
C28_Witness ==
    /\ BootReturned
    /\ Len(joinAddresses) = 2
    /\ joinAddresses[1] # BadAddr
    /\ joinAddresses[2] = BadAddr
    /\ defaultPeers # <<>>
    /\ bootstrapPeers = defaultPeers
    /\ Len(dial) = Len(defaultPeers)

\* C30: a node never has more than one stats goroutine running, however
\* many Bootstrap calls were made on it.
C30_SingleLoop ==
    loops <= 1

\* ------------------------------------------------------- C25 .. C27
\* C25: while main has not begun to shut down, the server side leaves open
\* the stream of every session that is still being served.
C25_StreamOpenWhileServing ==
    \A s \in Streams :
        (session[s] = "serving" /\ ~grpcStopped /\ ~hostClosed)
            => streamState[s] = "open"

\* C26: once GracefulStop has returned no RPC session is running, a stream
\* the Host delivers from then on never gets a session, and the stream
\* handler stays registered for as long as the Host is not closed.
C26_NoSessionAfterStop ==
    /\ \A s \in lateStreams : session[s] = "none" /\ sctx[s] = Nil
    /\ mpc \in {"stopped", "closed", "exit"} =>
           /\ handlerSet
           /\ \A s \in Streams : session[s] # "serving"

\* A stream was delivered to the handler after GracefulStop had returned;
\* its Serve call has returned and closed it, with no session.
C26_Witness ==
    \E s \in lateStreams :
        /\ handlerSet
        /\ handler[s] = "returned"
        /\ task[s] = "done"
        /\ streamState[s] = "closed"
        /\ session[s] = "none"

\* C27: no stream is handed to an RPC client's transport twice, and none is
\* handed over after the transport that used it has closed it.
C27_StreamHandedOnce ==
    \A j \in 1..Len(handed) :
        /\ ~handed[j].stale
        /\ \A k \in 1..Len(handed) : j # k => handed[j].conn # handed[k].conn

\* ------------------------------------------------------------- C29
\* C29: the stream handler is registered only after main's Bootstrap call
\* returned nil; a process ended by a failed NewNode or Bootstrap has no
\* handler registered; and a stream that arrived before the handler was
\* registered is never handed to the handler, bridged or served.
C29_ServeAfterBootstrap ==
    /\ handlerSet => bootRet = "nil"
    /\ mpc = "fatal" => ~handlerSet
    /\ \A s \in Streams :
          (~handlerSet \/ streamState[s] = "reset") =>
              /\ handler[s] = "none"
              /\ task[s] = "none"
              /\ session[s] = "none"

\* Bootstrap failed in main after a stream had arrived during the call.
C29_Witness ==
    /\ mpc = "fatal"
    /\ bootRet = "err"
    /\ \E s \in Streams : streamState[s] = "reset"

====
